---- MODULE Spec2Model ----
(***************************************************************************)
(* Model of packages/lark-slack-desktop/src-tauri/src/main.rs: the bridge  *)
(* process supervisor (start_bridge, stop_bridge, window-destroyed         *)
(* cleanup), the stdout event stream parser thread, the configuration      *)
(* commands and the Slack OAuth flow (start_slack_oauth,                   *)
(* complete_slack_oauth).                                                  *)
(*                                                                         *)
(* Tauri runs async commands concurrently on its runtime, so every         *)
(* command is a sequence of steps; one step is one critical section (from  *)
(* lock() to the drop of the guard) or one blocking/suspending call.       *)
(***************************************************************************)
EXTENDS Integers, Sequences, FiniteSets, TLC

(* ------------------------------ bounds -------------------------------- *)
\* concurrent command invocations (caller contexts of the webview)
NumCallers == 2
\* bridge child processes spawned over one run
MaxSpawn == 2
\* stdout lines the child writes over one run
MaxLines == 2
\* state tokens start_slack_oauth generates over one run
MaxTokens == 2
\* authorization codes the provider hands to the relay over one run
MaxCodes == 1
\* complete_slack_oauth calls over one run
MaxFlows == 2

Callers == 1..NumCallers
ChildIds == 1..MaxSpawn
\* Option<Child>::None, and "no thread owns the lock"
NoChild == 0
NoOwner == 0
\* Option<u16>::None
NoPort == -1

(* --------------------------- integer widths ---------------------------- *)
\* A u64 is kept as hi * 2^32 + lo with 0 <= lo < 2^32, so that `as u32`
\* (keep the low 32 bits) and `as u16` (keep the low 16 bits) are computed
\* without a number of more than 31 bits.
U16 == 65536

(* ------------------------------ Config -------------------------------- *)
\* Config::default(): every string empty, send_as_user false
DefaultConfig ==
    [slack_bot_token |-> "", slack_app_token |-> "", slack_signing_secret |-> "",
     lark_webhook_url |-> "", slack_user_token |-> "", slack_user_name |-> "",
     send_as_user |-> FALSE, slack_client_id |-> "", slack_client_secret |-> ""]

\* the Config values in which the three required fields are set or empty
RequiredCombos ==
    { [DefaultConfig EXCEPT !.slack_bot_token = b, !.slack_app_token = a,
                            !.lark_webhook_url = w] :
        b \in {"", "xoxb-1"}, a \in {"", "xapp-1"}, w \in {"", "https://hook"} }

ValidConfig ==
    [DefaultConfig EXCEPT !.slack_bot_token = "xoxb-1", !.slack_app_token = "xapp-1",
                          !.lark_webhook_url = "https://hook"]

(* ---------------------------- BridgeStatus ----------------------------- *)
\* BridgeStatus::default()
DefaultStatus ==
    [is_running |-> FALSE, slack_connected |-> FALSE, lark_connected |-> FALSE,
     message_stats |-> [slack_to_lark |-> 0, lark_to_slack |-> 0],
     server_port |-> NoPort]

(* ------------------------------ errors -------------------------------- *)
NoErr == ""
AlreadyRunning == "AlreadyRunning"
InvalidBotToken == "InvalidConfig(slack_bot_token)"
InvalidAppToken == "InvalidConfig(slack_app_token)"
InvalidWebhookUrl == "InvalidConfig(lark_webhook_url)"
CredentialsMissing == "CredentialsMissing"
BrowserLaunchFailed == "BrowserLaunchFailed"
AuthorizationTimeout == "AuthorizationTimeout"
ResponseParseError == "ResponseParseError"
NetworkError == "NetworkError"
TokenExchangeFailed == "TokenExchangeFailed"
TokenMissing == "TokenMissing"
RuntimeNotFound == "RuntimeNotFound"
EntryPointNotFound == "EntryPointNotFound"
SpawnFailed == "SpawnFailed"

\* the three `if` statements of the validation taken in another order
ValidateConfigReordered(c) ==
    IF c.lark_webhook_url = "" THEN InvalidWebhookUrl
    ELSE IF c.slack_app_token = "" THEN InvalidAppToken
    ELSE IF c.slack_bot_token = "" THEN InvalidBotToken
    ELSE NoErr

\* the validation of start_bridge: the first empty required field, in the
\* order of the three `if` statements
ValidateConfig(c) ==
    IF c.slack_bot_token = "" THEN InvalidBotToken
    ELSE IF c.slack_app_token = "" THEN InvalidAppToken
    ELSE IF c.lark_webhook_url = "" THEN InvalidWebhookUrl
    ELSE NoErr

(* ------------------- JSON values on the child's stdout ------------------ *)
\* One member of a JSON object as serde_json::Value shows it to the parser:
\* absent, a boolean, a number, or a value of another type (string, null, ...).
JAbsent == [t |-> "absent", b |-> FALSE, hi |-> 0, lo |-> 0]
JBool(x) == [t |-> "bool", b |-> x, hi |-> 0, lo |-> 0]
\* the JSON number hi * 2^32 + lo
JNum(hi, lo) == [t |-> "num", b |-> FALSE, hi |-> hi, lo |-> lo]
\* a negative or fractional JSON number
JNeg == [t |-> "negnum", b |-> FALSE, hi |-> 0, lo |-> 0]
JOther == [t |-> "other", b |-> FALSE, hi |-> 0, lo |-> 0]

\* Value::as_bool(): Some only for a JSON boolean
as_bool(v) == [some |-> v.t = "bool", val |-> v.b]
\* Value::as_u64(): Some only for a non-negative integer
as_u64(v) == [some |-> v.t = "num", hi |-> v.hi, lo |-> v.lo]
\* `x as u32` and `x as u16` of a u64: truncation
as_u32(x) == x.lo
as_u16(x) == x.lo % U16

\* The body of a line after its prefix.  json: "invalid" (serde_json::from_str
\* fails), "value" (valid JSON).  data: the body has a "data" member.
\* log: the body deserializes as LogEntry {level, message, timestamp}.
EmptyBody ==
    [json |-> "value", data |-> FALSE, isRunning |-> JAbsent,
     slackConnected |-> JAbsent, larkConnected |-> JAbsent, messageStats |-> FALSE,
     slackToLark |-> JAbsent, larkToSlack |-> JAbsent, port |-> JAbsent,
     log |-> FALSE]
InvalidBody == [EmptyBody EXCEPT !.json = "invalid"]

\* prefixes the parser dispatches on, and an unrecognized one
STATUS == "STATUS:"
LOG == "LOG:"
ERROR == "ERROR:"
READY == "READY:"
RecognizedPrefixes == {STATUS, LOG, ERROR, READY}
OtherPrefixes == {"DEBUG:"}

\* utf8 = FALSE: reader.lines() yields Err for the line (invalid UTF-8)
Line(pre, body) == [utf8 |-> TRUE, prefix |-> pre, body |-> body]
BadUtf8Line == [utf8 |-> FALSE, prefix |-> "", body |-> InvalidBody]

StatusBody(r, s, l, hasStats, a, b) ==
    [EmptyBody EXCEPT !.data = TRUE, !.isRunning = r, !.slackConnected = s,
                      !.larkConnected = l, !.messageStats = hasStats,
                      !.slackToLark = a, !.larkToSlack = b]
ReadyBody(p) == [EmptyBody EXCEPT !.port = p]
LogBody == [EmptyBody EXCEPT !.log = TRUE]

\* values a counter member takes in the payloads
CountMembers == {JNum(0, 3), JNum(1, 7), JNeg}

\* STATUS: payloads: no member, the three flags together, each flag alone
\* (isRunning also with a value that is no boolean), counters outside
\* "messageStats", and the two counters with one of them varying
StatusBodies ==
    { StatusBody(JAbsent, JAbsent, JAbsent, FALSE, JAbsent, JAbsent),
      StatusBody(JBool(TRUE), JBool(TRUE), JBool(TRUE), FALSE, JAbsent, JAbsent),
      StatusBody(JBool(FALSE), JBool(FALSE), JBool(FALSE), FALSE, JAbsent, JAbsent),
      StatusBody(JAbsent, JBool(TRUE), JAbsent, FALSE, JAbsent, JAbsent),
      StatusBody(JAbsent, JAbsent, JBool(FALSE), FALSE, JAbsent, JAbsent),
      StatusBody(JAbsent, JAbsent, JAbsent, FALSE, JNum(0, 3), JNum(0, 3)),
      StatusBody(JAbsent, JAbsent, JAbsent, TRUE, JAbsent, JNum(1, 7)) }
    \cup { StatusBody(v, JAbsent, JAbsent, FALSE, JAbsent, JAbsent) :
             v \in {JBool(TRUE), JBool(FALSE), JOther} }
    \cup { StatusBody(JAbsent, JAbsent, JAbsent, TRUE, a, JNum(0, 5)) : a \in CountMembers }

\* the spec's example: STATUS:{"data":{"isRunning":true,"messageStats":{"slackToLark":3}}}
ExampleStatusLine ==
    Line(STATUS, StatusBody(JBool(TRUE), JAbsent, JAbsent, TRUE, JNum(0, 3), JAbsent))

ReadyBodies ==
    { ReadyBody(p) : p \in {JAbsent, JNum(0, 3456), JNum(0, U16 + 80)} }

\* the lines a child writes
AllLines ==
    { Line(STATUS, b) : b \in StatusBodies \cup {EmptyBody, InvalidBody} }
    \cup {ExampleStatusLine}
    \cup { Line(LOG, b) : b \in {LogBody, EmptyBody, InvalidBody} }
    \cup { Line(ERROR, b) : b \in {EmptyBody, InvalidBody} }
    \cup { Line(READY, b) : b \in ReadyBodies \cup {InvalidBody} }
    \cup { Line(p, EmptyBody) : p \in OtherPrefixes }
    \cup {BadUtf8Line}

(* ------------------------ the parser, line by line ---------------------- *)
Event(name, body) == [name |-> name, payload |-> body]

\* a STATUS: branch that rebuilds the status from the payload: a member the
\* payload lacks falls back to its default
ApplyStatusReplace(st, d) ==
    LET r == as_bool(d.isRunning)
        s == as_bool(d.slackConnected)
        l == as_bool(d.larkConnected)
        a == as_u64(d.slackToLark)
        b == as_u64(d.larkToSlack)
    IN  [st EXCEPT
           !.is_running = r.some /\ r.val,
           !.slack_connected = s.some /\ s.val,
           !.lark_connected = l.some /\ l.val,
           !.message_stats =
               [slack_to_lark |-> IF d.messageStats /\ a.some THEN as_u32(a) ELSE 0,
                lark_to_slack |-> IF d.messageStats /\ b.some THEN as_u32(b) ELSE 0]]

\* the STATUS: branch under the status lock: each member that decodes
\* overwrites its field
ApplyStatus(st, d) ==
    LET r == as_bool(d.isRunning)
        s == as_bool(d.slackConnected)
        l == as_bool(d.larkConnected)
        a == as_u64(d.slackToLark)
        b == as_u64(d.larkToSlack)
    IN  [st EXCEPT
           !.is_running = IF r.some THEN r.val ELSE @,
           !.slack_connected = IF s.some THEN s.val ELSE @,
           !.lark_connected = IF l.some THEN l.val ELSE @,
           !.message_stats =
               [slack_to_lark |-> IF d.messageStats /\ a.some THEN as_u32(a)
                                  ELSE @.slack_to_lark,
                lark_to_slack |-> IF d.messageStats /\ b.some THEN as_u32(b)
                                  ELSE @.lark_to_slack]]

\* the READY: branch: server_port = Some(port as u16) when "port" is a u64
ApplyReady(st, d) ==
    LET p == as_u64(d.port)
    IN  IF p.some THEN [st EXCEPT !.server_port = as_u16(p)] ELSE st

\* whether a line reaches an emit_all: a recognized prefix whose body parses
\* (and, for STATUS:, has a "data" member; for LOG:, is a LogEntry)
Decodes(line) ==
    /\ line.utf8
    /\ line.body.json = "value"
    /\ CASE line.prefix = STATUS -> line.body.data
         [] line.prefix = LOG -> line.body.log
         [] line.prefix = ERROR -> TRUE
         [] line.prefix = READY -> TRUE
         [] OTHER -> FALSE

\* Shared Status after the parser has handled one line
ParseStatus(st, line) ==
    IF ~Decodes(line) THEN st
    ELSE IF line.prefix = STATUS THEN ApplyStatus(st, line.body)
    ELSE IF line.prefix = READY THEN ApplyReady(st, line.body)
    ELSE st

\* a parser that publishes the STATUS: lines only
ParseEventsStatusOnly(line) ==
    IF Decodes(line) /\ line.prefix = STATUS
    THEN << Event("bridge-status", line.body) >>
    ELSE << >>

\* the events emit_all publishes for one line
ParseEvents(line) ==
    IF ~Decodes(line) THEN << >>
    ELSE IF line.prefix = STATUS THEN << Event("bridge-status", line.body) >>
    ELSE IF line.prefix = LOG THEN << Event("bridge-log", line.body) >>
    ELSE IF line.prefix = ERROR THEN << Event("bridge-error", line.body) >>
    ELSE << Event("bridge-ready", line.body) >>


(* ------------------------------- state --------------------------------- *)
VARIABLES
    config,          \* AppState.config
    file,            \* the config file at AppState.config_path
    status,          \* AppState.status
    bridge_process,  \* AppState.bridge_process: a child id, or NoChild
    lockOwner,       \* owner of each Mutex between steps, or NoOwner
    children,        \* per child: process state, stdout pipe, parser thread
    nspawned,        \* children spawned so far
    nlines,          \* lines written to the pipes so far
    events,          \* events published by emit_all, in order
    windowAlive,     \* the host window exists
    pc,              \* per caller: the step its command is at
    loc,             \* per caller: locals of the running command
    ret,             \* what the step just taken returned to its caller, if it returned
    hist,            \* history of the run, read by the properties only
    oauth            \* the OAuth flows and the relay

vars == << config, file, status, bridge_process, lockOwner, children, nspawned,
           nlines, events, windowAlive, pc, loc, ret, hist, oauth >>

Locks == {"config", "status", "bridge_process"}

\* child process: "none" (not spawned), "alive", "exited" (dead, not reaped),
\* "reaped".  parser: "none", "running", "done".
NoChildRec == [proc |-> "none", pipe |-> << >>, parser |-> "none"]

NoCode == [some |-> FALSE, val |-> ""]
SomeCode(c) == [some |-> TRUE, val |-> c]
NoToken == 0

NoLoc == [child |-> NoChild, fails |-> {}, cfg |-> DefaultConfig,
          state_token |-> NoToken, polls |-> 0, last |-> FALSE, code |-> NoCode,
          user_token |-> "", user_name |-> ""]
NoRet == [caller |-> 0, op |-> "", kind |-> "", err |-> NoErr, status |-> DefaultStatus,
          child |-> NoChild, fails |-> {}, token |-> NoToken, name |-> "", phase |-> "",
          polls |-> 0, config |-> DefaultConfig]

Ok(op, st, c, fails) ==
    [NoRet EXCEPT !.op = op, !.kind = "Ok", !.status = st, !.child = c, !.fails = fails]
Err(op, e) == [NoRet EXCEPT !.op = op, !.kind = "Err", !.err = e]
Returns(p, r) == ret' = [r EXCEPT !.caller = p]
NoReturn == ret' = NoRet

Free(l) == lockOwner[l] = NoOwner
\* the guards a command still holds are dropped when it returns
ReleaseAll(p) == [l \in Locks |-> IF lockOwner[l] = p THEN NoOwner ELSE lockOwner[l]]

\* commands of caller p that are between start_bridge's check and its spawn
Starting == { p \in Callers : pc[p] \in {"start_config", "start_spawn"} }

(* ------------------------------ history --------------------------------- *)
\* What has happened so far; no action reads it.
\*   okSinceStop: a start_bridge has returned Ok and no stop_bridge has been
\*                called since that return
\*   clean:       the callers whose start_bridge in progress was called after
\*                the last call of stop_bridge
\*   okSinceCall: a start_bridge has returned Ok and no stop_bridge has been
\*                called since that start_bridge was called
\*   racing:      the callers whose start_bridge passed its check while a
\*                stop_bridge that took a handle was in progress
\*   idleStops:   the stop_bridge calls that found no handle and returned one
\*                after the other with no other step in between (at most 2),
\*                and idleFirst, the status the first of them returned
\*   raced:       a start_bridge passed its check while another start_bridge
\*                was in progress
\*   malformedAt: the number of events published when the parser last read a
\*                malformed line, or -1
\*   destroyed:   the child the window's Destroyed handler took from the slot
\*   committed:   the user token and name of the complete_slack_oauth that
\*                committed last, whether a commit was made while another
\*                complete_slack_oauth was in progress, and whether the
\*                Config it committed to differed, outside the three fields a
\*                commit sets, from the one it had cloned when called; none
\*                once a save_config has replaced the Config after it
\*   stopped:     the child the last stop_bridge that returned had taken from
\*                the slot, NoChild once a start_bridge is called after it
\* a Config with the three fields an OAuth commit sets blanked out
OtherFields(c) ==
    [c EXCEPT !.slack_user_token = "", !.slack_user_name = "", !.send_as_user = FALSE]

NoHist ==
    [okSinceStop |-> FALSE, clean |-> {}, okSinceCall |-> FALSE, racing |-> {},
     idleStops |-> 0, idleFirst |-> DefaultStatus, raced |-> FALSE, malformedAt |-> -1,
     stopped |-> NoChild, destroyed |-> NoChild,
     committed |-> [some |-> FALSE, token |-> "", name |-> "", overlapped |-> FALSE,
                    edited |-> FALSE]]

\* a line the parser cannot decode: no recognized prefix, or a body that is
\* not JSON, or bytes that are not UTF-8
Malformed(line) ==
    \/ ~line.utf8
    \/ line.prefix \notin RecognizedPrefixes
    \/ line.body.json = "invalid"

OAuthPcs == {"oauth_poll", "oauth_exchange", "oauth_identity", "oauth_commit"}
StartPcs == {"start_config", "start_spawn", "start_store", "start_status"}
StopPcs == {"stop_signal", "stop_sleep", "stop_kill", "stop_wait", "stop_reset"}
\* the stop_bridge calls in progress that took a handle
Stopping == { p \in Callers : pc[p] \in StopPcs /\ loc[p].child # NoChild }

HistNext ==
    LET stopCalled == \E p \in Callers : pc[p] = "idle" /\ pc'[p] \in StopPcs
        started == { p \in Callers : pc[p] = "idle" /\ pc'[p] = "start_config" }
        startCalled == \/ started # {}
                       \/ ret'.op = "start_bridge" /\ pc[ret'.caller] = "idle"
        ended == { p \in Callers : pc'[p] = "idle" }
        startOk == ret'.op = "start_bridge" /\ ret'.kind = "Ok"
        idleTake == \E p \in Callers : pc[p] = "idle" /\ pc'[p] = "stop_reset"
        idleReturn == ret'.op = "stop_bridge" /\ ret'.child = NoChild
        read == { c \in ChildIds : Len(children'[c].pipe) < Len(children[c].pipe) }
        committing == { p \in Callers : pc[p] = "oauth_commit" /\ pc'[p] = "idle" }
        replaced == \E p \in Callers : pc[p] = "save_replace" /\ pc'[p] = "idle"
    IN  hist' =
          [okSinceStop |-> IF stopCalled THEN FALSE
                           ELSE IF startOk THEN TRUE ELSE hist.okSinceStop,
           clean |-> IF stopCalled THEN {} ELSE (hist.clean \cup started) \ ended,
           okSinceCall |-> IF stopCalled THEN FALSE
                           ELSE IF startOk /\ ret'.caller \in hist.clean THEN TRUE
                           ELSE hist.okSinceCall,
           racing |-> (hist.racing \cup (IF Stopping # {} THEN started ELSE {})) \ ended,
           idleStops |-> IF idleReturn THEN (IF hist.idleStops < 2 THEN hist.idleStops + 1
                                             ELSE 2)
                         ELSE IF idleTake THEN hist.idleStops ELSE 0,
           idleFirst |-> IF idleReturn
                         THEN (IF hist.idleStops = 0 THEN ret'.status ELSE hist.idleFirst)
                         ELSE IF idleTake THEN hist.idleFirst ELSE DefaultStatus,
           raced |-> \/ hist.raced
                     \/ \E p \in started : \E q \in Callers \ {p} : pc[q] \in StartPcs,
           malformedAt |-> IF \E c \in read : Malformed(Head(children[c].pipe))
                           THEN Len(events) ELSE hist.malformedAt,
           stopped |-> IF startCalled THEN NoChild
                       ELSE IF ret'.op = "stop_bridge" /\ ret'.child # NoChild
                            THEN ret'.child ELSE hist.stopped,
           destroyed |-> IF windowAlive /\ ~windowAlive' THEN bridge_process
                         ELSE hist.destroyed,
           committed |-> IF committing # {}
                         THEN LET p == CHOOSE q \in committing : TRUE
                              IN  [some |-> TRUE, token |-> loc[p].user_token,
                                   name |-> loc[p].user_name,
                                   overlapped |->
                                       \/ hist.committed.overlapped
                                       \/ \E q \in Callers \ {p} : pc[q] \in OAuthPcs,
                                   edited |-> OtherFields(config) # OtherFields(loc[p].cfg)]
                         ELSE IF replaced THEN NoHist.committed
                         ELSE hist.committed]

(* ---------------------------- start_bridge ------------------------------ *)
\* start_bridge without the check of lines 192-198: it goes on to spawn
\* whatever the slot holds
StartCheckSkipped(p) ==
    /\ windowAlive
    /\ pc[p] = "idle"
    /\ nspawned + Cardinality(Starting) < MaxSpawn
    /\ Free("bridge_process")
    /\ NoReturn
    /\ pc' = [pc EXCEPT ![p] = "start_config"]
    /\ UNCHANGED << config, file, status, bridge_process, lockOwner, children, nspawned,
                    nlines, events, windowAlive, loc, oauth >>
    /\ HistNext

\* lines 192-198: the "already running" check, in its own critical section
StartCheck(p) ==
    /\ windowAlive
    /\ pc[p] = "idle"
    /\ bridge_process # NoChild \/ nspawned + Cardinality(Starting) < MaxSpawn
    /\ Free("bridge_process")
    /\ IF bridge_process # NoChild
       THEN /\ Returns(p, Err("start_bridge", AlreadyRunning))
            /\ pc' = pc
       ELSE /\ NoReturn
            /\ pc' = [pc EXCEPT ![p] = "start_config"]
    /\ UNCHANGED << config, file, status, bridge_process, lockOwner, children, nspawned,
                    nlines, events, windowAlive, loc, oauth >>
    /\ HistNext

\* lines 200-212: clone the Config under its lock, validate the clone
StartConfig(p) ==
    /\ pc[p] = "start_config"
    /\ Free("config")
    /\ LET e == ValidateConfig(config)
       IN  IF e # NoErr
           THEN /\ Returns(p, Err("start_bridge", e))
                /\ pc' = [pc EXCEPT ![p] = "idle"]
           ELSE /\ NoReturn
                /\ pc' = [pc EXCEPT ![p] = "start_spawn"]
    /\ UNCHANGED << config, file, status, bridge_process, lockOwner, children, nspawned,
                    nlines, events, windowAlive, loc, oauth >>
    /\ HistNext

\* lines 214-244 and 267: node or the CLI script is not found, or spawn fails
StartSpawnFail(p) ==
    /\ pc[p] = "start_spawn"
    /\ \E e \in {RuntimeNotFound, EntryPointNotFound, SpawnFailed} :
          Returns(p, Err("start_bridge", e))
    /\ pc' = [pc EXCEPT ![p] = "idle"]
    /\ UNCHANGED << config, file, status, bridge_process, lockOwner, children, nspawned,
                    nlines, events, windowAlive, loc, oauth >>
    /\ HistNext

\* lines 260-331: spawn the child with piped stdout and start its parser thread
StartSpawn(p) ==
    /\ pc[p] = "start_spawn"
    /\ nspawned < MaxSpawn
    /\ LET c == nspawned + 1
       IN  /\ children' = [children EXCEPT
                              ![c] = [proc |-> "alive", pipe |-> << >>, parser |-> "running"]]
           /\ loc' = [loc EXCEPT ![p].child = c]
    /\ nspawned' = nspawned + 1
    /\ pc' = [pc EXCEPT ![p] = "start_store"]
    /\ NoReturn
    /\ UNCHANGED << config, file, status, bridge_process, lockOwner, nlines, events,
                    windowAlive, oauth >>
    /\ HistNext

\* line 334: store the handle; the handle it replaces, if any, is dropped
\* (dropping a std::process::Child neither kills nor reaps the process)
StartStore(p) ==
    /\ pc[p] = "start_store"
    /\ Free("bridge_process")
    /\ bridge_process' = loc[p].child
    /\ pc' = [pc EXCEPT ![p] = "start_status"]
    /\ NoReturn
    /\ UNCHANGED << config, file, status, lockOwner, children, nspawned, nlines, events,
                    windowAlive, loc, oauth >>
    /\ HistNext

\* lines 336-340: is_running = true, return a clone of the status
StartStatus(p) ==
    /\ pc[p] = "start_status"
    /\ Free("status")
    /\ status' = [status EXCEPT !.is_running = TRUE]
    /\ Returns(p, Ok("start_bridge", status', loc[p].child, {}))
    /\ loc' = [loc EXCEPT ![p] = NoLoc]
    /\ pc' = [pc EXCEPT ![p] = "idle"]
    /\ lockOwner' = ReleaseAll(p)
    /\ UNCHANGED << config, file, bridge_process, children, nspawned, nlines, events,
                    windowAlive, oauth >>
    /\ HistNext


(* ----------------------------- stop_bridge ------------------------------ *)
\* a stop_bridge that keeps the guard on the slot, and the handle in it, for
\* the whole shutdown
StopTakeGuardHeld(p) ==
    /\ windowAlive
    /\ pc[p] = "idle"
    /\ Free("bridge_process")
    /\ loc' = [loc EXCEPT ![p] = [NoLoc EXCEPT !.child = bridge_process]]
    /\ lockOwner' = [lockOwner EXCEPT !["bridge_process"] = p]
    /\ pc' = [pc EXCEPT ![p] = IF bridge_process # NoChild THEN "stop_signal"
                                ELSE "stop_reset"]
    /\ NoReturn
    /\ UNCHANGED << config, file, status, bridge_process, children, nspawned, nlines,
                    events, windowAlive, oauth >>
    /\ HistNext

\* a stop_bridge that runs the shutdown sequence whether or not it took a handle
StopTakeAlways(p) ==
    /\ windowAlive
    /\ pc[p] = "idle"
    /\ Free("bridge_process")
    /\ loc' = [loc EXCEPT ![p] = [NoLoc EXCEPT !.child = bridge_process]]
    /\ bridge_process' = NoChild
    /\ pc' = [pc EXCEPT ![p] = "stop_signal"]
    /\ NoReturn
    /\ UNCHANGED << config, file, status, lockOwner, children, nspawned, nlines, events,
                    windowAlive, oauth >>
    /\ HistNext

\* lines 345-349: take() the handle out of the slot; the guard is dropped at
\* the end of the block
StopTake(p) ==
    /\ windowAlive
    /\ pc[p] = "idle"
    /\ Free("bridge_process")
    /\ loc' = [loc EXCEPT ![p] = [NoLoc EXCEPT !.child = bridge_process]]
    /\ bridge_process' = NoChild
    /\ pc' = [pc EXCEPT ![p] = IF bridge_process # NoChild THEN "stop_signal"
                                ELSE "stop_reset"]
    /\ NoReturn
    /\ UNCHANGED << config, file, status, lockOwner, children, nspawned, nlines, events,
                    windowAlive, oauth >>
    /\ HistNext

\* lines 352-354: POST http://127.0.0.1:3456/stop, awaited; the result is
\* discarded.  A child that honours the request exits by ChildExit.
StopSignal(p) ==
    /\ pc[p] = "stop_signal"
    /\ \E ok \in BOOLEAN :
          loc' = [loc EXCEPT ![p].fails = IF ok THEN @ ELSE @ \cup {"post"}]
    /\ pc' = [pc EXCEPT ![p] = "stop_sleep"]
    /\ NoReturn
    /\ UNCHANGED << config, file, status, bridge_process, lockOwner, children, nspawned,
                    nlines, events, windowAlive, oauth >>
    /\ HistNext

\* a stop_bridge that skips the kill when the child has exited during the
\* grace period
StopSleepSkipsKill(p) ==
    /\ pc[p] = "stop_sleep"
    /\ pc' = [pc EXCEPT ![p] = IF children[loc[p].child].proc = "alive" THEN "stop_kill"
                                ELSE "stop_wait"]
    /\ NoReturn
    /\ UNCHANGED << config, file, status, bridge_process, lockOwner, children, nspawned,
                    nlines, events, windowAlive, loc, oauth >>
    /\ HistNext

\* line 357: sleep 500 ms
StopSleep(p) ==
    /\ pc[p] = "stop_sleep"
    /\ pc' = [pc EXCEPT ![p] = "stop_kill"]
    /\ NoReturn
    /\ UNCHANGED << config, file, status, bridge_process, lockOwner, children, nspawned,
                    nlines, events, windowAlive, loc, oauth >>
    /\ HistNext

\* Child::kill(): a live child dies; on a child that has already exited the
\* call succeeds or fails with the platform
KillChild(c) == [children EXCEPT ![c].proc = IF @ = "alive" THEN "exited" ELSE @]
KillResults(c) == IF children[c].proc = "alive" THEN {TRUE} ELSE BOOLEAN

\* line 360: kill, the result is discarded
StopKill(p) ==
    /\ pc[p] = "stop_kill"
    /\ \E ok \in KillResults(loc[p].child) :
          loc' = [loc EXCEPT ![p].fails = IF ok THEN @ ELSE @ \cup {"kill"}]
    /\ children' = KillChild(loc[p].child)
    /\ pc' = [pc EXCEPT ![p] = "stop_wait"]
    /\ NoReturn
    /\ UNCHANGED << config, file, status, bridge_process, lockOwner, nspawned, nlines,
                    events, windowAlive, oauth >>
    /\ HistNext

\* line 361: wait() returns once the child has exited and reaps it; the
\* result is discarded
StopWait(p) ==
    /\ pc[p] = "stop_wait"
    /\ children[loc[p].child].proc # "alive"
    /\ \E ok \in BOOLEAN :
          /\ loc' = [loc EXCEPT ![p].fails = IF ok THEN @ ELSE @ \cup {"wait"}]
          /\ children' = [children EXCEPT ![loc[p].child].proc = IF ok THEN "reaped" ELSE @]
    /\ pc' = [pc EXCEPT ![p] = "stop_reset"]
    /\ NoReturn
    /\ UNCHANGED << config, file, status, bridge_process, lockOwner, nspawned, nlines,
                    events, windowAlive, oauth >>
    /\ HistNext

\* a reset that clears is_running and server_port only
StopResetStatusKeepsFlags(st) ==
    [st EXCEPT !.is_running = FALSE, !.server_port = NoPort]

\* a reset that leaves server_port as it is
StopResetStatusKeepsPort(st) ==
    [st EXCEPT !.is_running = FALSE, !.slack_connected = FALSE, !.lark_connected = FALSE]

\* lines 365-369: the fields stop_bridge resets; message_stats is kept
StopResetStatus(st) ==
    [st EXCEPT !.is_running = FALSE, !.slack_connected = FALSE,
               !.lark_connected = FALSE, !.server_port = NoPort]

\* lines 364-371: reset the status under its lock and return a clone of it
StopReset(p) ==
    /\ pc[p] = "stop_reset"
    /\ Free("status")
    /\ status' = StopResetStatus(status)
    /\ Returns(p, Ok("stop_bridge", status', loc[p].child, loc[p].fails))
    /\ loc' = [loc EXCEPT ![p] = NoLoc]
    /\ pc' = [pc EXCEPT ![p] = "idle"]
    /\ lockOwner' = ReleaseAll(p)
    /\ UNCHANGED << config, file, bridge_process, children, nspawned, nlines, events,
                    windowAlive, oauth >>
    /\ HistNext

(* ------------------------- window destroyed ----------------------------- *)
\* a Destroyed handler that takes the handle and drops it without a kill
WindowDestroyedNoKill ==
    /\ windowAlive
    /\ Free("bridge_process")
    /\ windowAlive' = FALSE
    /\ bridge_process' = NoChild
    /\ NoReturn
    /\ UNCHANGED << config, file, status, lockOwner, children, nspawned, nlines, events,
                    pc, loc, oauth >>
    /\ HistNext

\* lines 696-705: take() the handle and kill it; nothing waits for the child.
\* Commands are invoked from the window's webview: none starts afterwards.
WindowDestroyed ==
    /\ windowAlive
    /\ Free("bridge_process")
    /\ windowAlive' = FALSE
    /\ bridge_process' = NoChild
    /\ children' = IF bridge_process # NoChild THEN KillChild(bridge_process) ELSE children
    /\ NoReturn
    /\ UNCHANGED << config, file, status, lockOwner, nspawned, nlines, events, pc, loc,
                    oauth >>
    /\ HistNext

(* --------------------- the child and its stdout pipe -------------------- *)
\* the bridge process writes a line to its stdout
WriteLine(c, line) ==
    /\ children[c].proc = "alive"
    /\ children' = [children EXCEPT ![c].pipe = Append(@, line)]
    /\ nlines' = nlines + 1
    /\ NoReturn
    /\ UNCHANGED << config, file, status, bridge_process, lockOwner, nspawned, events,
                    windowAlive, pc, loc, oauth >>
    /\ HistNext

ChildWrite(c) ==
    /\ nlines < MaxLines
    /\ \E line \in AllLines : WriteLine(c, line)

\* the lines of a bridge that reports its connections, its counters and its port
BridgeLines ==
    { Line(STATUS, StatusBody(JBool(TRUE), JBool(TRUE), JBool(TRUE), TRUE,
                              JNum(0, 3), JNum(0, 5))),
      Line(READY, ReadyBody(JNum(0, 3456))) }

\* the lines of a bridge that reports a connection apart from its running
\* flag: Slack connected with a counter, and Lark connected while not running
ConnectionLines ==
    { Line(STATUS, StatusBody(JAbsent, JBool(TRUE), JAbsent, TRUE, JNum(0, 3), JAbsent)),
      Line(STATUS, StatusBody(JBool(FALSE), JAbsent, JBool(TRUE), FALSE, JAbsent, JAbsent)) }

ChildConnection(c) ==
    /\ nlines < MaxLines
    /\ \E line \in ConnectionLines : WriteLine(c, line)

ChildReport(c) ==
    /\ nlines < MaxLines
    /\ \E line \in BridgeLines : WriteLine(c, line)

\* the bridge process exits by itself (a crash, or after POST /stop)
ChildExit(c) ==
    /\ children[c].proc = "alive"
    /\ children' = [children EXCEPT ![c].proc = "exited"]
    /\ NoReturn
    /\ UNCHANGED << config, file, status, bridge_process, lockOwner, nspawned, nlines,
                    events, windowAlive, pc, loc, oauth >>
    /\ HistNext

(* --------------------------- parser thread ------------------------------ *)
\* a parser loop that ends at the first line it cannot decode
ParserStepFragile(c) ==
    /\ children[c].parser = "running"
    /\ children[c].pipe # << >>
    /\ Free("status")
    /\ LET line == Head(children[c].pipe)
       IN  /\ status' = ParseStatus(status, line)
           /\ events' = events \o ParseEvents(line)
           /\ children' = [children EXCEPT ![c].pipe = Tail(@),
                                           ![c].parser = IF Malformed(line) THEN "done"
                                                         ELSE @]
    /\ NoReturn
    /\ UNCHANGED << config, file, bridge_process, lockOwner, nspawned, nlines, windowAlive,
                    pc, loc, oauth >>
    /\ HistNext

\* lines 275-329: one iteration of `for line in reader.lines()`
ParserStep(c) ==
    /\ children[c].parser = "running"
    /\ children[c].pipe # << >>
    /\ Free("status")
    /\ LET line == Head(children[c].pipe)
       IN  /\ status' = ParseStatus(status, line)
           /\ events' = events \o ParseEvents(line)
    /\ children' = [children EXCEPT ![c].pipe = Tail(@)]
    /\ NoReturn
    /\ UNCHANGED << config, file, bridge_process, lockOwner, nspawned, nlines, windowAlive,
                    pc, loc, oauth >>
    /\ HistNext

\* a pipe whose end of file is seen only once the child has been reaped
ParserEofWhenReaped(c) ==
    /\ children[c].parser = "running"
    /\ children[c].pipe = << >>
    /\ children[c].proc = "reaped"
    /\ children' = [children EXCEPT ![c].parser = "done"]
    /\ NoReturn
    /\ UNCHANGED << config, file, status, bridge_process, lockOwner, nspawned, nlines,
                    events, windowAlive, pc, loc, oauth >>
    /\ HistNext

\* line 275: reader.lines() ends at end of file: the child is dead and the
\* pipe is drained
ParserEof(c) ==
    /\ children[c].parser = "running"
    /\ children[c].pipe = << >>
    /\ children[c].proc \in {"exited", "reaped"}
    /\ children' = [children EXCEPT ![c].parser = "done"]
    /\ NoReturn
    /\ UNCHANGED << config, file, status, bridge_process, lockOwner, nspawned, nlines,
                    events, windowAlive, pc, loc, oauth >>
    /\ HistNext

(* -------------------------- Config commands ----------------------------- *)
\* lines 173-176: get_config: a clone of the Config taken under its lock
GetConfig(p) ==
    /\ windowAlive
    /\ pc[p] = "idle"
    /\ Free("config")
    /\ Returns(p, [NoRet EXCEPT !.op = "get_config", !.kind = "Ok", !.config = config])
    /\ UNCHANGED << config, file, status, bridge_process, lockOwner, children, nspawned,
                    nlines, events, windowAlive, pc, loc, oauth >>
    /\ HistNext

\* fs::write of the serialized Config
WriteFile(c) == [present |-> TRUE, content |-> c]

\* lines 179-180: save_config_to_file fails: the error is returned
SaveConfigFail(p) ==
    /\ windowAlive
    /\ pc[p] = "idle"
    /\ Returns(p, Err("save_config", "io"))
    /\ UNCHANGED << config, file, status, bridge_process, lockOwner, children, nspawned,
                    nlines, events, windowAlive, pc, loc, oauth >>
    /\ HistNext

\* lines 179-180: save_config_to_file writes the file
SaveConfigWrite(p, c) ==
    /\ windowAlive
    /\ pc[p] = "idle"
    /\ file' = WriteFile(c)
    /\ loc' = [loc EXCEPT ![p] = [NoLoc EXCEPT !.cfg = c]]
    /\ pc' = [pc EXCEPT ![p] = "save_replace"]
    /\ NoReturn
    /\ UNCHANGED << config, status, bridge_process, lockOwner, children, nspawned, nlines,
                    events, windowAlive, oauth >>
    /\ HistNext

\* lines 181-182: replace the in-memory Config under its lock
SaveConfigReplace(p) ==
    /\ pc[p] = "save_replace"
    /\ Free("config")
    /\ config' = loc[p].cfg
    /\ Returns(p, Ok("save_config", DefaultStatus, NoChild, {}))
    /\ loc' = [loc EXCEPT ![p] = NoLoc]
    /\ pc' = [pc EXCEPT ![p] = "idle"]
    /\ UNCHANGED << file, status, bridge_process, lockOwner, children, nspawned, nlines,
                    events, windowAlive, oauth >>
    /\ HistNext


(* ------------------------------ OAuth flow ------------------------------ *)
Tokens == 1..MaxTokens
\* `for _ in 0..120`
PollBudget == 120
PlaceholderName == "authenticated-user"

CodeStr(n) == "code-" \o ToString(n)
\* what the provider issues for a code
UserTokenOf(code) == "xoxp-" \o code
UserNameOf(code) == "user-" \o code

\* lines 483-496: the build-time credential wins over the configured one
get_oauth_credentials(c) ==
    [client_id |-> IF oauth.embedded_client_id # "" THEN oauth.embedded_client_id
                   ELSE c.slack_client_id,
     client_secret |-> IF oauth.embedded_client_secret # "" THEN oauth.embedded_client_secret
                       ELSE c.slack_client_secret]

\* line 521: Uuid::new_v4() is a token no earlier call generated (tokens are
\* numbered in the order they are generated)
FreshTokens == IF oauth.ntokens < MaxTokens THEN {oauth.ntokens + 1} ELSE {}

\* lines 508-538: start_slack_oauth; open::that fails or opens the browser
OAuthStart(p) ==
    /\ windowAlive
    /\ pc[p] = "idle"
    /\ Free("config")
    /\ IF get_oauth_credentials(config).client_id = ""
       THEN /\ Returns(p, Err("start_slack_oauth", CredentialsMissing))
            /\ oauth' = oauth
       ELSE \E t \in FreshTokens :
              \/ /\ Returns(p, Err("start_slack_oauth", BrowserLaunchFailed))
                 /\ oauth' = oauth
              \/ /\ Returns(p, [NoRet EXCEPT !.op = "start_slack_oauth", !.kind = "Ok",
                                             !.token = t])
                 /\ oauth' = [oauth EXCEPT !.ntokens = t, !.opened = @ \cup {t}]
    /\ UNCHANGED << config, file, status, bridge_process, lockOwner, children, nspawned,
                    nlines, events, windowAlive, pc, loc >>
    /\ HistNext

\* the user authorizes in the browser opened for state token t; the provider
\* redirects to the relay's callback with a fresh code and that state
RelayCallback(t) ==
    /\ t \in oauth.opened
    /\ oauth.ncodes < MaxCodes
    /\ LET c == CodeStr(oauth.ncodes + 1)
       IN  oauth' = [oauth EXCEPT !.ncodes = @ + 1,
                                  !.store[t] = SomeCode(c),
                                  !.delivered = @ \cup {<< t, c >>}]
    /\ NoReturn
    /\ UNCHANGED << config, file, status, bridge_process, lockOwner, children, nspawned,
                    nlines, events, windowAlive, pc, loc >>
    /\ HistNext

\* a complete_slack_oauth that keeps the guard of the Config it cloned
OAuthCompleteGuardHeld(p, t) ==
    /\ windowAlive
    /\ pc[p] = "idle"
    /\ t \in oauth.opened
    /\ oauth.nflows < MaxFlows
    /\ Free("config")
    /\ loc' = [loc EXCEPT ![p] = [NoLoc EXCEPT !.cfg = config, !.state_token = t]]
    /\ pc' = [pc EXCEPT ![p] = "oauth_poll"]
    /\ oauth' = [oauth EXCEPT !.nflows = @ + 1]
    /\ lockOwner' = [lockOwner EXCEPT !["config"] = p]
    /\ NoReturn
    /\ UNCHANGED << config, file, status, bridge_process, children, nspawned,
                    nlines, events, windowAlive >>
    /\ HistNext

\* lines 549-556: complete_slack_oauth(state_token, ..), called with a token a
\* start_slack_oauth returned: clone the Config, build the retrieve URL
OAuthComplete(p, t) ==
    /\ windowAlive
    /\ pc[p] = "idle"
    /\ t \in oauth.opened
    /\ oauth.nflows < MaxFlows
    /\ Free("config")
    /\ loc' = [loc EXCEPT ![p] = [NoLoc EXCEPT !.cfg = config, !.state_token = t]]
    /\ pc' = [pc EXCEPT ![p] = "oauth_poll"]
    /\ oauth' = [oauth EXCEPT !.nflows = @ + 1]
    /\ NoReturn
    /\ UNCHANGED << config, file, status, bridge_process, lockOwner, children, nspawned,
                    nlines, events, windowAlive >>
    /\ HistNext

\* a retrieve URL built from the state token generated last, not from the
\* one the call was given
RetrieveKeyLatest(p) == oauth.ntokens

\* line 551: the state token the retrieve URL carries
RetrieveKey(p) == loc[p].state_token

\* GET /oauth/retrieve?state=<key>: what the relay (or the network) answers.
\* "neterr": send() fails; "non2xx"; "undecodable": 2xx whose body is not an
\* OAuthRetrieveResponse; "nocode": 2xx, code absent; "empty": 2xx, code "";
\* "code": 2xx with the code stored under the key.
RelayAnswers(key) ==
    {"neterr", "non2xx", "undecodable", "nocode", "empty"}
    \cup (IF oauth.store[key].some THEN {"code"} ELSE {})

\* line 560: whether the loop runs another iteration after n polls
MorePolls(n) == n < PollBudget

\* lines 560-585: one iteration of the loop: the poll of the relay and, when
\* it brings no code, the one-second sleep that follows it.  polls counts
\* the iterations begun; the counter does not outlive the loop, and `last`
\* keeps whether the loop was left in its final iteration.
OAuthPoll(p) ==
    /\ pc[p] = "oauth_poll"
    /\ MorePolls(loc[p].polls)
    /\ \E a \in RelayAnswers(RetrieveKey(p)) :
          CASE a = "code" ->
                 /\ loc' = [loc EXCEPT ![p].polls = 0,
                                       ![p].last = ~MorePolls(loc[p].polls + 1),
                                       ![p].code = oauth.store[RetrieveKey(p)]]
                 /\ pc' = [pc EXCEPT ![p] = "oauth_exchange"]
                 /\ NoReturn
                 \* the relay keeps the code or forgets it once retrieved
                 /\ \/ oauth' = oauth
                    \/ oauth' = [oauth EXCEPT !.store[RetrieveKey(p)] = NoCode]
            [] a = "empty" ->
                 /\ loc' = [loc EXCEPT ![p].polls = 0,
                                       ![p].last = ~MorePolls(loc[p].polls + 1),
                                       ![p].code = SomeCode("")]
                 /\ pc' = [pc EXCEPT ![p] = "oauth_exchange"]
                 /\ NoReturn
                 /\ oauth' = oauth
            [] a = "undecodable" ->
                 /\ Returns(p, [Err("complete_slack_oauth", ResponseParseError)
                                  EXCEPT !.phase = "poll"])
                 /\ loc' = [loc EXCEPT ![p] = NoLoc]
                 /\ pc' = [pc EXCEPT ![p] = "idle"]
                 /\ oauth' = oauth
            [] OTHER ->
                 /\ loc' = [loc EXCEPT ![p].polls = @ + 1]
                 /\ pc' = pc
                 /\ NoReturn
                 /\ oauth' = oauth
    /\ UNCHANGED << config, file, status, bridge_process, lockOwner, children, nspawned,
                    nlines, events, windowAlive >>
    /\ HistNext

\* line 587: the loop has ended and `code` is None
OAuthTimeout(p) ==
    /\ pc[p] = "oauth_poll"
    /\ ~MorePolls(loc[p].polls)
    /\ Returns(p, [Err("complete_slack_oauth", AuthorizationTimeout)
                     EXCEPT !.phase = "poll", !.polls = loc[p].polls])
    /\ loc' = [loc EXCEPT ![p] = NoLoc]
    /\ pc' = [pc EXCEPT ![p] = "idle"]
    /\ UNCHANGED << config, file, status, bridge_process, lockOwner, children, nspawned,
                    nlines, events, windowAlive, oauth >>
    /\ HistNext

\* lines 589-620: POST oauth.v2.access with the code.  The provider issues a
\* user token only for a code it handed out.
ExchangeAnswers(code) ==
    {NetworkError, ResponseParseError, TokenExchangeFailed, TokenMissing}
    \cup (IF code # "" THEN {NoErr} ELSE {})

OAuthExchange(p) ==
    /\ pc[p] = "oauth_exchange"
    /\ \E e \in ExchangeAnswers(loc[p].code.val) :
          IF e # NoErr
          THEN /\ Returns(p, [Err("complete_slack_oauth", e) EXCEPT !.phase = "exchange"])
               /\ loc' = [loc EXCEPT ![p] = NoLoc]
               /\ pc' = [pc EXCEPT ![p] = "idle"]
          ELSE /\ loc' = [loc EXCEPT ![p].user_token = UserTokenOf(loc[p].code.val)]
               /\ pc' = [pc EXCEPT ![p] = "oauth_identity"]
               /\ NoReturn
    /\ UNCHANGED << config, file, status, bridge_process, lockOwner, children, nspawned,
                    nlines, events, windowAlive, oauth >>
    /\ HistNext

\* lines 622-648: users.identity; any failure yields the placeholder name
OAuthIdentity(p) ==
    /\ pc[p] = "oauth_identity"
    /\ \E n \in {UserNameOf(loc[p].code.val), PlaceholderName} :
          loc' = [loc EXCEPT ![p].user_name = n]
    /\ pc' = [pc EXCEPT ![p] = "oauth_commit"]
    /\ NoReturn
    /\ UNCHANGED << config, file, status, bridge_process, lockOwner, children, nspawned,
                    nlines, events, windowAlive, oauth >>
    /\ HistNext

\* a commit in two critical sections: the token first, then the name and
\* the flag with the file write
OAuthCommitTorn(p) ==
    /\ pc[p] = "oauth_commit"
    /\ Free("config")
    /\ IF config.slack_user_token # loc[p].user_token
       THEN /\ config' = [config EXCEPT !.slack_user_token = loc[p].user_token]
            /\ NoReturn
            /\ UNCHANGED << file, oauth, loc, pc, lockOwner >>
       ELSE /\ config' = [config EXCEPT !.slack_user_name = loc[p].user_name,
                                        !.send_as_user = TRUE]
            /\ \/ file' = WriteFile(config')
               \/ file' = file
            /\ oauth' = [oauth EXCEPT !.events = Append(@, loc[p].user_name)]
            /\ Returns(p, [NoRet EXCEPT !.op = "complete_slack_oauth", !.kind = "Ok",
                                       !.name = loc[p].user_name, !.polls = loc[p].polls,
                                       !.token = loc[p].state_token])
            /\ loc' = [loc EXCEPT ![p] = NoLoc]
            /\ pc' = [pc EXCEPT ![p] = "idle"]
            /\ lockOwner' = ReleaseAll(p)
    /\ UNCHANGED << status, bridge_process, children, nspawned, nlines, events,
                    windowAlive >>
    /\ HistNext

\* lines 652-655: the three fields the commit sets
CommitConfig(c, tok, name) ==
    [c EXCEPT !.slack_user_token = tok, !.slack_user_name = name, !.send_as_user = TRUE]

\* a commit that writes back the Config cloned when the call began, with
\* the three fields set
OAuthCommitFromClone(p) ==
    /\ pc[p] = "oauth_commit"
    /\ Free("config")
    /\ config' = CommitConfig(loc[p].cfg, loc[p].user_token, loc[p].user_name)
    /\ \/ file' = WriteFile(config')
       \/ file' = file
    /\ oauth' = [oauth EXCEPT !.events = Append(@, loc[p].user_name)]
    /\ Returns(p, [NoRet EXCEPT !.op = "complete_slack_oauth", !.kind = "Ok",
                               !.name = loc[p].user_name, !.polls = loc[p].polls,
                               !.token = loc[p].state_token])
    /\ loc' = [loc EXCEPT ![p] = NoLoc]
    /\ pc' = [pc EXCEPT ![p] = "idle"]
    /\ lockOwner' = ReleaseAll(p)
    /\ UNCHANGED << status, bridge_process, children, nspawned, nlines, events,
                    windowAlive >>
    /\ HistNext

\* lines 650-669: under the Config lock set the three fields and write the
\* file (a write error is only logged); publish slack-oauth-complete
OAuthCommit(p) ==
    /\ pc[p] = "oauth_commit"
    /\ Free("config")
    /\ config' = CommitConfig(config, loc[p].user_token, loc[p].user_name)
    /\ \/ file' = WriteFile(config')
       \/ file' = file
    /\ oauth' = [oauth EXCEPT !.events = Append(@, loc[p].user_name)]
    /\ Returns(p, [NoRet EXCEPT !.op = "complete_slack_oauth", !.kind = "Ok",
                               !.name = loc[p].user_name, !.polls = loc[p].polls,
                               !.token = loc[p].state_token])
    /\ loc' = [loc EXCEPT ![p] = NoLoc]
    /\ pc' = [pc EXCEPT ![p] = "idle"]
    /\ lockOwner' = ReleaseAll(p)
    /\ UNCHANGED << status, bridge_process, children, nspawned, nlines, events,
                    windowAlive >>
    /\ HistNext


(* --------------------------- specifications ----------------------------- *)
NoFile == [present |-> FALSE, content |-> DefaultConfig]
\* lines 113-122: load_config: the file's Config, or the default without one
load_config(f) == IF f.present THEN f.content ELSE DefaultConfig

NoOAuth ==
    [embedded_client_id |-> "", embedded_client_secret |-> "",
     ntokens |-> 0, opened |-> {}, store |-> [t \in Tokens |-> NoCode],
     delivered |-> {}, ncodes |-> 0, nflows |-> 0, events |-> << >>]

\* lines 672-682: main(): the managed AppState
InitState(files) ==
    /\ file \in files
    /\ config = load_config(file)
    /\ status = DefaultStatus
    /\ bridge_process = NoChild
    /\ lockOwner = [l \in Locks |-> NoOwner]
    /\ children = [c \in ChildIds |-> NoChildRec]
    /\ nspawned = 0
    /\ nlines = 0
    /\ events = << >>
    /\ windowAlive = TRUE
    /\ pc = [p \in Callers |-> "idle"]
    /\ loc = [p \in Callers |-> NoLoc]
    /\ ret = NoRet
    /\ hist = NoHist

StartBridge(p) ==
    \/ StartCheck(p)
    \/ StartConfig(p)
    \/ StartSpawnFail(p)
    \/ StartSpawn(p)
    \/ StartStore(p)
    \/ StartStatus(p)

StopBridge(p) ==
    \/ StopTake(p)
    \/ StopSignal(p)
    \/ StopSleep(p)
    \/ StopKill(p)
    \/ StopWait(p)
    \/ StopReset(p)

\* the supervisor under concurrent callers
Init ==
    /\ InitState({NoFile} \cup {WriteFile(c) : c \in RequiredCombos})
    /\ oauth = NoOAuth

Next ==
    \/ \E p \in Callers : StartBridge(p)
    \/ \E p \in Callers : StopBridge(p)
    \/ WindowDestroyed
    \/ \E c \in ChildIds : ChildExit(c)
    \/ \E c \in ChildIds : ParserEof(c)

Spec == Init /\ [][Next]_vars

\* one caller starting and stopping the bridge while save_config calls
\* replace the Config
SaveInputs ==
    {ValidConfig,
     [ValidConfig EXCEPT !.slack_bot_token = "", !.lark_webhook_url = ""],
     [ValidConfig EXCEPT !.slack_app_token = ""]}

SaveConfig(p) ==
    \/ SaveConfigFail(p)
    \/ \E c \in SaveInputs : SaveConfigWrite(p, c)
    \/ SaveConfigReplace(p)

ConfigNext ==
    \/ StartBridge(1)
    \/ StopBridge(1)
    \/ \E p \in Callers : SaveConfig(p)
    \/ \E c \in ChildIds : ChildExit(c)

ConfigSpec == Init /\ [][ConfigNext]_vars

\* one bridge child that writes any line of AllLines, and its parser thread
ParserInit ==
    /\ InitState({WriteFile(ValidConfig)})
    /\ oauth = NoOAuth

ParserNext ==
    \/ StartBridge(1)
    \/ \E c \in ChildIds : ChildWrite(c)
    \/ \E c \in ChildIds : ChildExit(c)
    \/ \E c \in ChildIds : ParserStep(c)
    \/ \E c \in ChildIds : ParserEof(c)

ParserSpec == ParserInit /\ [][ParserNext]_vars

\* one caller starting and stopping a bridge that reports on its stdout
LifeNext ==
    \/ StartBridge(1)
    \/ StopBridge(1)
    \/ WindowDestroyed
    \/ \E c \in ChildIds : ChildReport(c)
    \/ \E c \in ChildIds : ChildExit(c)
    \/ \E c \in ChildIds : ParserStep(c)
    \/ \E c \in ChildIds : ParserEof(c)

LifeSpec == ParserInit /\ [][LifeNext]_vars

\* line 273: the parser runs on a thread of its own, which the operating
\* system keeps scheduling: a line that can be read is read, an end of file
\* that can be seen is seen
ParserFairness ==
    \A c \in ChildIds : WF_vars(ParserStep(c)) /\ WF_vars(ParserEof(c))

LifeFairSpec == LifeSpec /\ ParserFairness

\* one caller starting a bridge that reports on its stdout, every caller
\* stopping it
StopRaceNext ==
    \/ StartBridge(1)
    \/ \E p \in Callers : StopBridge(p)
    \/ \E c \in ChildIds : ChildReport(c)
    \/ \E c \in ChildIds : ParserStep(c)
    \/ \E c \in ChildIds : ParserEof(c)

StopRaceSpec == ParserInit /\ [][StopRaceNext]_vars

\* one caller starting and stopping a bridge that reports its connections
\* one by one
StatusNext ==
    \/ StartBridge(1)
    \/ StopBridge(1)
    \/ \E c \in ChildIds : ChildConnection(c)
    \/ \E c \in ChildIds : ChildExit(c)
    \/ \E c \in ChildIds : ParserStep(c)
    \/ \E c \in ChildIds : ParserEof(c)

StatusSpec == ParserInit /\ [][StatusNext]_vars

\* the OAuth flows: a build and a Config without a client id, and a build
\* with an embedded client id beside a configured one
OAuthInit ==
    \/ /\ InitState({WriteFile(ValidConfig)})
       /\ oauth = NoOAuth
    \/ /\ InitState({WriteFile([ValidConfig EXCEPT !.slack_client_id = "cid",
                                                   !.slack_client_secret = "csecret"])})
       /\ oauth = [NoOAuth EXCEPT !.embedded_client_id = "embedded-id",
                                  !.embedded_client_secret = "embedded-secret"]

OAuthFlow(p) ==
    \/ OAuthStart(p)
    \/ \E t \in Tokens : OAuthComplete(p, t)
    \/ OAuthPoll(p)
    \/ OAuthTimeout(p)
    \/ OAuthExchange(p)
    \/ OAuthIdentity(p)
    \/ OAuthCommit(p)

\* one caller: the flows follow one another, the relay's callbacks arrive at
\* any time
OAuthNext ==
    \/ OAuthFlow(1)
    \/ \E t \in Tokens : RelayCallback(t)

OAuthSpec == OAuthInit /\ [][OAuthNext]_vars

\* overlapping flows of concurrent callers
OAuthRaceNext ==
    \/ \E p \in Callers : OAuthFlow(p)
    \/ \E t \in Tokens : RelayCallback(t)

OAuthRaceSpec == OAuthInit /\ [][OAuthRaceNext]_vars

\* overlapping flows while the Config is read and replaced: the Config file
\* holds a client id, and save_config saves back the Config the window
\* loaded at startup
ConfiguredClient ==
    [ValidConfig EXCEPT !.slack_client_id = "cid", !.slack_client_secret = "csecret"]

CommitInit ==
    /\ InitState({WriteFile(ConfiguredClient)})
    /\ oauth = NoOAuth

SaveBack(p) ==
    \/ SaveConfigFail(p)
    \/ SaveConfigWrite(p, ConfiguredClient)
    \/ SaveConfigReplace(p)

CommitNext ==
    \/ \E p \in Callers : OAuthFlow(p)
    \/ \E t \in Tokens : RelayCallback(t)
    \/ \E p \in Callers : GetConfig(p)
    \/ \E p \in Callers : SaveBack(p)

CommitSpec == CommitInit /\ [][CommitNext]_vars

\* one caller running OAuth flows while another saves a Config edited in
\* the window: another webhook URL
EditedConfig == [ConfiguredClient EXCEPT !.lark_webhook_url = "https://hook2"]

SaveEdited(p) ==
    \/ SaveConfigFail(p)
    \/ SaveConfigWrite(p, EditedConfig)
    \/ SaveConfigReplace(p)

FrameNext ==
    \/ OAuthFlow(1)
    \/ \E t \in Tokens : RelayCallback(t)
    \/ SaveEdited(2)

FrameSpec == CommitInit /\ [][FrameNext]_vars

\* the commands that suspend: one caller stopping and starting the bridge
\* and running OAuth flows
AwaitNext ==
    \/ StartBridge(1)
    \/ StopBridge(1)
    \/ \E c \in ChildIds : ChildExit(c)
    \/ OAuthFlow(1)
    \/ \E t \in Tokens : RelayCallback(t)

AwaitSpec == OAuthInit /\ [][AwaitNext]_vars


(* ------------------------------ properties ------------------------------ *)
LiveChildren == { c \in ChildIds : children[c].proc = "alive" }
\* a live child some command in progress holds in a local: a stop_bridge
\* that took its handle, or a start_bridge between its spawn and its store
HeldLocally(c) ==
    \E p \in Callers : loc[p].child = c /\ pc[p] \in StopPcs \cup {"start_store"}

\* C1: at most one bridge child process is alive at any time, and that
\* process is the one the stored handle references or one a stop_bridge in
\* progress holds (a child that a start_bridge has spawned and is about to
\* store is counted as referenced too).
C1_SingleInstance ==
    /\ Cardinality(LiveChildren) <= 1
    /\ \A c \in LiveChildren : bridge_process = c \/ HeldLocally(c)

RejectedBy(p) == [Err("start_bridge", AlreadyRunning) EXCEPT !.caller = p]

\* C2: once a start_bridge has returned Ok, and no stop_bridge has been called
\* since that start_bridge was called, a further start_bridge returns
\* AlreadyRunning, spawns nothing, and leaves the stored handle, the child
\* and the status as they are.
C2_SecondStartRejected ==
    [][\A p \in Callers :
          (hist.okSinceCall /\ StartCheck(p)) =>
              /\ ret' = RejectedBy(p)
              /\ pc'[p] = "idle"
              /\ UNCHANGED << bridge_process, children, nspawned, status >>]_vars

\* C2 reached: a start_bridge was rejected after an undisturbed successful one
C2_Witness ==
    /\ hist.okSinceCall
    /\ ret.op = "start_bridge"
    /\ ret.err = AlreadyRunning
    /\ bridge_process \in LiveChildren

\* C2 as stated: once a start_bridge has returned Ok and no stop_bridge has
\* been called since it returned, a further start_bridge returns
\* AlreadyRunning and spawns nothing.
C2_AsStated ==
    [][\A p \in Callers :
          (hist.okSinceStop /\ StartCheck(p)) =>
              /\ ret' = RejectedBy(p)
              /\ pc'[p] = "idle"
              /\ UNCHANGED << bridge_process, children, nspawned, status >>]_vars

\* the required fields in the order the spec checks them
RequiredOrder == << "slack_bot_token", "slack_app_token", "lark_webhook_url" >>
EmptyRequired(c) == { i \in 1..3 : c[RequiredOrder[i]] = "" }
FirstEmpty(c) ==
    RequiredOrder[CHOOSE i \in EmptyRequired(c) : \A j \in EmptyRequired(c) : i <= j]
InvalidConfigBy(p, c) ==
    [Err("start_bridge", "InvalidConfig(" \o FirstEmpty(c) \o ")") EXCEPT !.caller = p]

\* C3: a start_bridge call that finds no stored handle goes on to read the
\* Config, and for every Config in which a required field is empty it then
\* returns the InvalidConfig error naming the first empty field in the order
\* slack_bot_token, slack_app_token, lark_webhook_url, spawns nothing and
\* leaves the slot, the children and the status as they are.
C3_InvalidConfigRejected ==
    [][\A p \in Callers :
          /\ (StartCheck(p) /\ bridge_process = NoChild) => pc'[p] = "start_config"
          /\ (StartConfig(p) /\ EmptyRequired(config) # {}) =>
                /\ ret' = InvalidConfigBy(p, config)
                /\ pc'[p] = "idle"
                /\ UNCHANGED << bridge_process, children, nspawned, status >>]_vars

\* C3 reached: two required fields are empty and the error names the first
C3_Witness ==
    /\ EmptyRequired(config) = {2, 3}
    /\ ret.op = "start_bridge"
    /\ ret.err = InvalidAppToken
    /\ nspawned = 0

\* C3 as stated: whenever start_bridge is called on, or reads, a Config in
\* which a required field is empty, it returns the InvalidConfig error naming
\* the first empty field.
C3_AsStated ==
    [][\A p \in Callers :
          ((StartCheck(p) \/ StartConfig(p)) /\ EmptyRequired(config) # {}) =>
              \/ pc'[p] = "start_config"
              \/ ret' = InvalidConfigBy(p, config)]_vars

\* C4: every return of stop_bridge is Ok, whichever of the POST, the kill
\* and the wait failed; the status it returns has isRunning, slackConnected
\* and larkConnected false and no server port; and the slot no longer holds
\* the handle the call took.
C4_StopAlwaysSucceeds ==
    ret.op = "stop_bridge" =>
        /\ ret.kind = "Ok"
        /\ ret.err = NoErr
        /\ ~ret.status.is_running
        /\ ~ret.status.slack_connected
        /\ ~ret.status.lark_connected
        /\ ret.status.server_port = NoPort
        /\ ret.child # NoChild => bridge_process # ret.child

\* C4 reached: a stop_bridge whose POST and kill both failed returns the
\* reset status of a bridge that had reported its connections and counters
C4_Witness ==
    /\ ret.op = "stop_bridge"
    /\ ret.child # NoChild
    /\ {"post", "kill"} \subseteq ret.fails
    /\ ret.status.message_stats.slack_to_lark = 3

\* C5: a stop_bridge that finds no handle goes straight to the reset: no
\* POST, no sleep, no kill, the slot and the children untouched; it returns
\* Ok with isRunning false; and of the calls that follow one another with
\* nothing in between, each returns the status the first returned and leaves
\* the shared state the first left.
C5_IdleStopIdempotent ==
    /\ [][\A p \in Callers :
             /\ (StopTake(p) /\ bridge_process = NoChild) =>
                   /\ pc'[p] = "stop_reset"
                   /\ UNCHANGED << status, bridge_process, children >>
             /\ (StopReset(p) /\ loc[p].child = NoChild) =>
                   /\ ret'.kind = "Ok"
                   /\ ~ret'.status.is_running
                   /\ ret'.status = status'
                   /\ ret'.fails = {}
                   /\ UNCHANGED << bridge_process, children >>]_vars
    /\ [](hist.idleStops = 2 =>
             /\ ret.op = "stop_bridge" => ret.status = hist.idleFirst
             /\ status = hist.idleFirst
             /\ bridge_process = NoChild)

\* C5 reached: a second stop_bridge in a row found no handle, on a status
\* carrying counters the bridge had reported
C5_Witness ==
    /\ hist.idleStops = 2
    /\ ret.op = "stop_bridge"
    /\ ret.child = NoChild
    /\ status.message_stats.lark_to_slack = 5

\* what the spec gives for a STATUS: payload: a flag that is present as a
\* boolean overwrites its field, a counter that is present as an unsigned
\* integer inside messageStats overwrites its field (kept in 32 bits), every
\* other field keeps its value
FlagAfter(v, old) == IF v.t = "bool" THEN v.b ELSE old
CountAfter(inStats, v, old) == IF inStats /\ v.t = "num" THEN v.lo ELSE old
StatusAfter(st, d) ==
    [is_running |-> FlagAfter(d.isRunning, st.is_running),
     slack_connected |-> FlagAfter(d.slackConnected, st.slack_connected),
     lark_connected |-> FlagAfter(d.larkConnected, st.lark_connected),
     message_stats |->
         [slack_to_lark |-> CountAfter(d.messageStats, d.slackToLark,
                                       st.message_stats.slack_to_lark),
          lark_to_slack |-> CountAfter(d.messageStats, d.larkToSlack,
                                       st.message_stats.lark_to_slack)],
     server_port |-> st.server_port]

\* C6: a STATUS: line with a "data" payload overwrites exactly the fields
\* whose members are present in the payload; every field whose member is
\* absent keeps the value it had; server_port is never touched.
C6_PartialStatusUpdate ==
    [][\A c \in ChildIds :
          (/\ ParserStep(c)
           /\ Head(children[c].pipe).utf8
           /\ Head(children[c].pipe).prefix = STATUS
           /\ Head(children[c].pipe).body.json = "value"
           /\ Head(children[c].pipe).body.data) =>
              status' = StatusAfter(status, Head(children[c].pipe).body)]_vars

\* C6 reached: after the spec's example payload {isRunning: true,
\* messageStats: {slackToLark: 3}} the connection flag an earlier line set
\* is still set
C6_Witness ==
    /\ events # << >>
    /\ events[Len(events)] = Event("bridge-status", ExampleStatusLine.body)
    /\ status.is_running
    /\ status.message_stats.slack_to_lark = 3
    /\ status.slack_connected

\* C7: reading a malformed line (an unrecognized prefix, or a body that is
\* not JSON) changes neither the status nor the events, returns nothing to
\* anyone, and leaves the parser running with every later line still queued;
\* the parser ends only at end of file, with nothing left unread.
C7_MalformedLineSkipped ==
    /\ [][\A c \in ChildIds :
             (ParserStep(c) /\ Malformed(Head(children[c].pipe))) =>
                 /\ UNCHANGED << status, events >>
                 /\ ret' = NoRet
                 /\ children'[c].parser = "running"
                 /\ children'[c].pipe = Tail(children[c].pipe)]_vars
    /\ [](\A c \in ChildIds :
             children[c].parser = "done" =>
                 children[c].pipe = << >> /\ children[c].proc # "alive")

\* C7 reached: an event was published for a line read after a malformed one
C7_Witness ==
    /\ hist.malformedAt >= 0
    /\ Len(events) > hist.malformedAt

TimedOut(p) ==
    [Err("complete_slack_oauth", AuthorizationTimeout)
        EXCEPT !.caller = p, !.phase = "poll", !.polls = PollBudget]

\* C8: complete_slack_oauth leaves its polling loop either for the token
\* exchange, with the code of the poll just made, after at most 120 polls,
\* or with AuthorizationTimeout after exactly 120 polls.
C8_PollsUntilCodeOrTimeout ==
    [][\A p \in Callers :
          (pc[p] = "oauth_poll" /\ pc'[p] # "oauth_poll") =>
              \/ /\ pc'[p] = "oauth_exchange"
                 /\ loc'[p].code.some
                 /\ loc[p].polls < PollBudget
              \/ /\ ret' = TimedOut(p)
                 /\ loc[p].polls = PollBudget]_vars

\* what holds of the loop: it never begins a 121st poll, and
\* AuthorizationTimeout is returned only after 120 polls
PollBudgetRespected ==
    /\ \A p \in Callers : loc[p].polls <= PollBudget
    /\ ret.err = AuthorizationTimeout => ret.polls = PollBudget

\* the 120th poll brought the code
LastPollDelivers == \E p \in Callers : pc[p] = "oauth_exchange" /\ loc[p].last

ExchangePcs == {"oauth_exchange", "oauth_identity", "oauth_commit"}

\* C9: the code a complete_slack_oauth call goes on to exchange is one the
\* relay received for the state token the call was given, and for no other
\* state token, also while another flow with another token is polling.
C9_CodeBelongsToToken ==
    \A p \in Callers :
        (pc[p] \in ExchangePcs /\ loc[p].code.val # "") =>
            /\ << loc[p].state_token, loc[p].code.val >> \in oauth.delivered
            /\ \A t \in Tokens \ {loc[p].state_token} :
                  << t, loc[p].code.val >> \notin oauth.delivered

\* C9 reached: one flow exchanges its code while an overlapping flow with
\* another state token is still polling
C9_Witness ==
    \E p, q \in Callers :
        /\ pc[p] = "oauth_exchange"
        /\ loc[p].code.val # ""
        /\ pc[q] = "oauth_poll"
        /\ loc[q].polls > 0
        /\ loc[q].state_token \notin {NoToken, loc[p].state_token}

TakenHandles == { loc[p].child : p \in Stopping }

\* C10: while a stop_bridge that took a handle is in progress the slot never
\* holds that handle again and the stop holds no lock, so a concurrent
\* start_bridge runs its check at once; the check finds the slot empty and
\* goes on, or finds a handle another start_bridge stored in the meantime
\* and returns AlreadyRunning.
C10_StopDoesNotBlockStart ==
    /\ [](Stopping # {} =>
             /\ bridge_process \notin TakenHandles
             /\ \A l \in Locks : lockOwner[l] \notin Stopping)
    /\ [][\A q \in Callers :
             (Stopping # {} /\ StartCheck(q)) =>
                 \/ bridge_process = NoChild /\ pc'[q] = "start_config"
                 \/ bridge_process \in ChildIds \ TakenHandles /\ ret' = RejectedBy(q)]_vars

\* C10 reached: a start_bridge has passed its check while a stop_bridge that
\* took a handle is still in progress
C10_Witness ==
    /\ Stopping # {}
    /\ \E q \in hist.racing : pc[q] = "start_config"

\* C10 as stated: while a stop_bridge that took a handle is in progress, a
\* start_bridge that runs its check finds no handle and does not return
\* AlreadyRunning (stated for the runs in which no two start_bridge calls
\* have overlapped).
C10_AsStated ==
    [][\A q \in Callers :
          (~hist.raced /\ Stopping # {} /\ StartCheck(q)) =>
              bridge_process = NoChild /\ pc'[q] = "start_config"]_vars


(* ------------------------------------------------------------------------ *)
\* C11: after a stop_bridge that took a child has returned, with no
\* start_bridge called since, once the parser thread of that child has ended
\* the status has is_running, slack_connected and lark_connected false and no
\* server_port: no line still queued on the pipe is applied over the reset.
StatusIsReset ==
    /\ ~status.is_running
    /\ ~status.slack_connected
    /\ ~status.lark_connected
    /\ status.server_port = NoPort

C11_StopResetStands ==
    (hist.stopped # NoChild /\ children[hist.stopped].parser = "done") => StatusIsReset

(* ------------------------------------------------------------------------ *)
\* the steps at which a command is suspended: stop_bridge in its POST, its
\* grace sleep and its wait for the child's exit; complete_slack_oauth in a
\* poll or the sleep after it, in the token exchange and in the identity
\* request.  start_bridge's spawn, its only call that blocks, is counted too;
\* start_slack_oauth has no such step.
SuspendingPcs ==
    {"stop_signal", "stop_sleep", "stop_wait",
     "oauth_poll", "oauth_exchange", "oauth_identity", "start_spawn"}

\* C12: a start_bridge, stop_bridge, start_slack_oauth or complete_slack_oauth
\* call that is at a suspending step (a network await, a sleep, a wait for
\* process exit) owns none of the locks config, status and bridge_process.
C12_NoLockWhileSuspended ==
    \A p \in Callers : pc[p] \in SuspendingPcs =>
        \A l \in Locks : lockOwner[l] # p

\* a stop_bridge waits for its child's exit after an OAuth flow has polled,
\* exchanged, asked for the identity and committed
C12_Witness ==
    /\ pc[1] = "stop_wait"
    /\ oauth.events # << >>

(* ------------------------------------------------------------------------ *)
\* C13: when the window is destroyed, the handle stored in bridge_process is
\* taken out of the slot and killed: the slot is empty afterwards, a live
\* child is dead and not reaped (nothing waited for it), and no step of a
\* graceful stop is taken: no command moves, the status is not touched.
C13_WindowDestroyKills ==
    [][(windowAlive /\ ~windowAlive') =>
          /\ bridge_process' = NoChild
          /\ \A c \in ChildIds :
                children'[c] = IF c = bridge_process /\ children[c].proc = "alive"
                               THEN [children[c] EXCEPT !.proc = "exited"]
                               ELSE children[c]
          /\ pc' = pc
          /\ loc' = loc
          /\ status' = status]_vars

\* the window was destroyed while a live child was stored: the child is dead,
\* its parser thread has not ended yet
C13_Witness ==
    /\ hist.destroyed # NoChild
    /\ children[hist.destroyed].proc = "exited"
    /\ children[hist.destroyed].parser = "running"
    /\ status.is_running

(* ------------------------------------------------------------------------ *)
\* the BridgeStatus invariant: not running implies neither side connected
BridgeStatusInvariant(st) ==
    ~st.is_running => (~st.slack_connected /\ ~st.lark_connected)

\* caller p's start_bridge or stop_bridge writes the status in this step
WritesStatus(p) == pc[p] \in {"start_status", "stop_reset"} /\ pc'[p] = "idle"

\* C14 (as amended): the status that a start_bridge or a stop_bridge
\* produces satisfies the BridgeStatus invariant, and so does the status a
\* stop_bridge returns; the parser's STATUS: updates are not bound by it.
C14_InvariantAtStartAndStop ==
    [][(\E p \in Callers : WritesStatus(p)) =>
          /\ BridgeStatusInvariant(status')
          /\ BridgeStatusInvariant(ret'.status)]_vars

\* a stop_bridge has reset a status in which the parser had set
\* slack_connected together with a counter: the counter is kept
C14_Witness ==
    /\ ret.op = "stop_bridge"
    /\ ret.child # NoChild
    /\ ret.status.message_stats.slack_to_lark = 3
    /\ BridgeStatusInvariant(status)

\* C14 (as stated): in every reachable state isRunning=false implies
\* slackConnected=false and larkConnected=false.
C14_AsStated == BridgeStatusInvariant(status)

(* ------------------------------------------------------------------------ *)
\* the parser thread of child c reads the line at the head of its pipe
Reads(c) == Len(children'[c].pipe) < Len(children[c].pipe)
ReadLine(c) == Head(children[c].pipe)

\* the event name of each prefix
EventName(prefix) ==
    CASE prefix = STATUS -> "bridge-status"
      [] prefix = LOG -> "bridge-log"
      [] prefix = ERROR -> "bridge-error"
      [] prefix = READY -> "bridge-ready"
      [] OTHER -> ""

ValidJson(line) == line.utf8 /\ line.body.json = "value"

\* a line that decodes: STATUS: with a JSON body that has a "data" member,
\* LOG: with a log entry, ERROR: and READY: with any JSON body
DecodedLine(line) ==
    /\ ValidJson(line)
    /\ \/ line.prefix = STATUS /\ line.body.data
       \/ line.prefix = LOG /\ line.body.log
       \/ line.prefix \in {ERROR, READY}

\* C15 (as amended): each line read from the pipe that decodes (for STATUS:,
\* valid JSON with a "data" member) publishes exactly one event, of its
\* prefix's name and with its payload, after the events of the lines read
\* before it, whether or not it changes the status; every other line and
\* every other step publishes nothing.
C15_DecodedLineForwardedOnce ==
    [][/\ \A c \in ChildIds : Reads(c) =>
             events' = IF DecodedLine(ReadLine(c))
                       THEN Append(events, [name |-> EventName(ReadLine(c).prefix),
                                            payload |-> ReadLine(c).body])
                       ELSE events
       /\ (\A c \in ChildIds : ~Reads(c)) => events' = events]_vars

\* a STATUS: line with no sub-field and an ERROR: line have been published
\* in that order, and the status is what start_bridge left
C15_Witness ==
    /\ Len(events) = 2
    /\ events[1] = [name |-> "bridge-status",
                    payload |-> StatusBody(JAbsent, JAbsent, JAbsent, FALSE, JAbsent, JAbsent)]
    /\ events[2].name = "bridge-error"
    /\ status = [DefaultStatus EXCEPT !.is_running = TRUE]

\* C15 (as stated): each STATUS: line whose body is valid JSON publishes a
\* bridge-status event.
C15_AsStated ==
    [][\A c \in ChildIds :
          (Reads(c) /\ ReadLine(c).prefix = STATUS /\ ValidJson(ReadLine(c))) =>
              /\ Len(events') = Len(events) + 1
              /\ events'[Len(events')].name = "bridge-status"]_vars

(* ------------------------------------------------------------------------ *)
\* C16: while attempts remain, the polling loop of complete_slack_oauth is
\* left only for the exchange with a non-empty code; after any other poll
\* the call is still in the loop with one more attempt counted, and it
\* returns no error.
C16_OnlyCodeEndsPolling ==
    [][\A p \in Callers :
          (pc[p] = "oauth_poll" /\ MorePolls(loc[p].polls)) =>
              \/ /\ pc'[p] = "oauth_exchange"
                 /\ loc'[p].code.some
                 /\ loc'[p].code.val # ""
              \/ /\ pc'[p] = "oauth_poll"
                 /\ loc'[p].polls \in {loc[p].polls, loc[p].polls + 1}
                 /\ ret'.kind # "Err"]_vars

(* ------------------------------------------------------------------------ *)
\* the step that follows each step of a stop_bridge that took a handle
StopSuccessor(x) ==
    CASE x = "stop_signal" -> "stop_sleep"
      [] x = "stop_sleep" -> "stop_kill"
      [] x = "stop_kill" -> "stop_wait"
      [] x = "stop_wait" -> "stop_reset"
      [] x = "stop_reset" -> "idle"

\* C17: a stop_bridge that finds a handle takes it from the slot, then
\* attempts the POST, waits the grace period, issues the kill, reaps the
\* child and resets the status, in this order and skipping none: the kill
\* follows the grace period whatever the POST's result and whether or not
\* the child has exited; the status is written by the last step only.
C17_StopStepOrder ==
    [][\A p \in Callers :
          /\ (pc[p] = "idle" /\ pc'[p] \in StopPcs /\ bridge_process # NoChild) =>
                /\ pc'[p] = "stop_signal"
                /\ loc'[p].child = bridge_process
                /\ bridge_process' = NoChild
          /\ (pc[p] \in StopPcs /\ loc[p].child # NoChild /\ pc'[p] # pc[p]) =>
                /\ pc'[p] = StopSuccessor(pc[p])
                /\ pc'[p] # "idle" => loc'[p].child = loc[p].child
                /\ pc[p] = "stop_kill" => children'[loc[p].child].proc = "exited"
                /\ pc[p] = "stop_wait" => children[loc[p].child].proc = "exited"
                /\ pc[p] # "stop_reset" => status' = status
                /\ pc[p] = "stop_reset" => StatusIsReset']_vars

\* a stop_bridge is about to reset the status after a POST that succeeded
\* and a kill that failed because the child had already exited
C17_Witness ==
    \E p \in Callers :
        /\ pc[p] = "stop_reset"
        /\ loc[p].child # NoChild
        /\ "post" \notin loc[p].fails
        /\ "kill" \in loc[p].fails

(* ------------------------------------------------------------------------ *)
\* caller p's stop_bridge, which found no handle, returns in this step
IdleStopReturns(p) == pc[p] = "stop_reset" /\ loc[p].child = NoChild /\ pc'[p] = "idle"

\* what holds of a stop_bridge that finds no handle: it signals, kills and
\* reaps nothing and leaves the slot, the children and message_stats as
\* they were, but it writes the status: is_running, slack_connected and
\* lark_connected become false and server_port None, whatever they were
IdleStopEffect ==
    [][\A p \in Callers :
          /\ (pc[p] = "idle" /\ pc'[p] \in StopPcs /\ bridge_process = NoChild) =>
                /\ pc'[p] = "stop_reset"
                /\ loc'[p].child = NoChild
                /\ UNCHANGED << status, bridge_process, children >>
          /\ IdleStopReturns(p) =>
                /\ status' = [is_running |-> FALSE, slack_connected |-> FALSE,
                              lark_connected |-> FALSE,
                              message_stats |-> status.message_stats,
                              server_port |-> NoPort]
                /\ ret'.status = status'
                /\ UNCHANGED << bridge_process, children >>]_vars

\* C18: a stop_bridge that finds no handle is a no-op: it returns the
\* current status and leaves every field of it as it was, also while another
\* stop_bridge or a start_bridge is in progress.
C18_IdleStopIsNoOp ==
    [][\A p \in Callers :
          IdleStopReturns(p) => (status' = status /\ ret'.status = status)]_vars

(* ------------------------------------------------------------------------ *)
\* C19: the parser thread of a child ends only at the end of file of the
\* child's stdout, that is with the child dead and the pipe drained; reading
\* a line, whatever it holds, does not end it; and with the parser thread
\* scheduled fairly, a child that stop_bridge or the window's Destroyed
\* handler has killed (any child that is dead) has its parser thread end.
C19_ParserEndsAtPipeClose ==
    /\ [][\A c \in ChildIds :
             /\ (children[c].parser = "running" /\ children'[c].parser # "running") =>
                   /\ children'[c].parser = "done"
                   /\ children[c].pipe = << >>
                   /\ children[c].proc \in {"exited", "reaped"}
             /\ Reads(c) => children'[c].parser = "running"]_vars
    /\ \A c \in ChildIds :
          (children[c].proc \in {"exited", "reaped"}) ~> (children[c].parser = "done")

\* the parser thread of a child that the window's Destroyed handler killed
\* has ended, after publishing what the child had written
C19_Witness ==
    /\ hist.destroyed # NoChild
    /\ children[hist.destroyed].proc = "exited"
    /\ children[hist.destroyed].parser = "done"
    /\ events # << >>

(* ------------------------------------------------------------------------ *)
\* the three fields a commit sets
UserFields(c) == << c.slack_user_token, c.slack_user_name, c.send_as_user >>

\* what a flow commits: the token of a code with the name of that code's
\* user or the placeholder, and send_as_user
FlowFields ==
    UNION { { << UserTokenOf(CodeStr(n)), name, TRUE >> :
                  name \in {UserNameOf(CodeStr(n)), PlaceholderName} } :
            n \in 1..MaxCodes }

\* a Config whose three fields are those of the Config loaded and saved, or
\* those of one flow
WholeConfig(c) ==
    \/ UserFields(c) = UserFields(ConfiguredClient)
    \/ UserFields(c) \in FlowFields

\* C20: the commit of complete_slack_oauth is atomic: the Config, and every
\* Config a get_config returns, has slack_user_token, slack_user_name and
\* send_as_user either all from one flow or all from the Config saved; and
\* as long as no save_config has replaced the Config since, the three fields
\* are those of the flow that committed last, also after overlapping flows.
C20_CommitAtomic ==
    /\ WholeConfig(config)
    /\ ret.op = "get_config" => (ret.config = config /\ WholeConfig(ret.config))
    /\ hist.committed.some =>
          UserFields(config) = << hist.committed.token, hist.committed.name, TRUE >>

\* two overlapping flows have both committed, under different names, and a
\* get_config returns the Config with the name committed last
C20_Witness ==
    /\ hist.committed.overlapped
    /\ Len(oauth.events) = 2
    /\ oauth.events[1] # oauth.events[2]
    /\ ret.op = "get_config"
    /\ ret.config.slack_user_name = oauth.events[2]

(* ------------------------------------------------------------------------ *)
\* no start_bridge and no stop_bridge call is in progress
NoBridgeCall == \A p \in Callers : pc[p] \notin StartPcs \cup StopPcs

\* the parser has published no bridge-status event: it has applied no
\* STATUS: line at all
NoStatusLineApplied == \A i \in 1..Len(events) : events[i].name # "bridge-status"

\* C21: whenever no start_bridge or stop_bridge call is in progress and the
\* parser has applied no STATUS: line, is_running is true exactly when
\* bridge_process holds a handle, whatever interleaving of start_bridge and
\* stop_bridge calls came before (the window being still there, so that the
\* handle was not taken by its Destroyed handler).
C21_HandleStatusConsistent ==
    (windowAlive /\ NoBridgeCall /\ NoStatusLineApplied) =>
        (status.is_running <=> bridge_process # NoChild)

(* ------------------------------------------------------------------------ *)
\* a complete_slack_oauth returns success in this step
CommitReturns == ret'.op = "complete_slack_oauth" /\ ret'.kind = "Ok"

\* C22: complete_slack_oauth changes the Config only in the step in which
\* it returns success, and then only slack_user_token, slack_user_name and
\* send_as_user: every other field keeps the value it has at that moment;
\* a call that returns an error leaves the Config as it is; and
\* slack-oauth-complete is published by a successful return only.
C22_CommitFrame ==
    [][/\ CommitReturns =>
             /\ OtherFields(config') = OtherFields(config)
             /\ config'.slack_user_name = ret'.name
             /\ config'.send_as_user
             /\ oauth'.events = Append(oauth.events, ret'.name)
       /\ (ret'.op = "complete_slack_oauth" /\ ret'.kind = "Err") => config' = config
       /\ (config' # config /\ ~CommitReturns) =>
             \E p \in Callers : pc[p] = "save_replace" /\ pc'[p] = "idle"
       /\ ~CommitReturns => oauth'.events = oauth.events]_vars

\* a flow has committed to a Config that a save_config had replaced since
\* the flow cloned it: the webhook URL saved in between is kept
C22_Witness ==
    /\ hist.committed.some
    /\ hist.committed.edited
    /\ config.lark_webhook_url = "https://hook2"
    /\ config.slack_user_token # ""

(* ------------------------------------------------------------------------ *)
\* no save_config is between its file write and its replace, and no
\* complete_slack_oauth is about to commit
NoConfigWriter == \A p \in Callers : pc[p] \notin {"save_replace", "oauth_commit"}

\* a save_config returns the error of its file write in this step
SaveFails == ret'.op = "save_config" /\ ret'.kind = "Err"

\* C23: once the save_config calls and the commits under way have all
\* finished, the Config in the file (what load_config would read) equals
\* the Config in memory; and a save_config whose file write fails returns
\* the error and leaves the Config in memory, and the file, as they were.
C23_FileAgreesWithMemory ==
    /\ [](NoConfigWriter => load_config(file) = config)
    /\ [][SaveFails => UNCHANGED << config, file >>]_vars

====
